---- MODULE Spec2Model ----
(***************************************************************************)
(* Model of src/maze.py: MazeNavigator maps a grid maze by a recursive     *)
(* depth-first exploration with physical backtracking, finds a route with  *)
(* a breadth-first search over the discovered graph, renders the map as a  *)
(* text grid and replays the route.                                        *)
(*                                                                         *)
(* The maze itself is the environment.  Its facts (which passages are      *)
(* open, which cells carry the red exit marker) are fixed but unknown to   *)
(* the program; the model fixes each fact at the moment the robot's        *)
(* sensors first depend on it and never changes it afterwards.             *)
(***************************************************************************)
EXTENDS Integers, Sequences, FiniteSets, TLC

(* ----------------------------- bounds ---------------------------------- *)
\* The maze lies inside the box 0..GridE by -GridS..GridN around the start
\* cell (0,0); everything beyond the box is solid wall.
GridE == 1
GridN == 1
GridS == 1
\* Number of cells of the maze that passages connect to the start cell.
MaxCells == 4
\* Number of cells that carry the red exit marker.
MaxRed == 2
\* Number of faulted port calls in one run (specification SpecF only), and
\* the number of cells of the mazes explored with a faulting port.
MaxFaults == 1
FaultCells == 2

\* Number of cells of the paths traverse_path is applied to on its own
\* (specification SpecT).
PathLen == 3

\* Number of cells of the maps generate_unicode_maze_text is applied to on
\* its own (specification SpecR).
RenderN == 3

\* Number of cells of the graphs find_shortest_path is applied to on its own
\* (specification SpecBFS).
BfsN == 4

(* --------------------------- constants --------------------------------- *)
\* "None" of the source: the empty tuple, distinct from every cell <<x, y>>.
None == <<>>

\* OFFSETS, indexed by heading 0 = North, 1 = East, 2 = South, 3 = West.
OFFSETS == [h \in 0..3 |-> CASE h = 0 -> <<0, 1>>
                             [] h = 1 -> <<1, 0>>
                             [] h = 2 -> <<0, -1>>
                             [] h = 3 -> <<-1, 0>>]

\* The relative directions explore_maze tries, in order.
Order == <<0, -1, 1, 2>>

Origin == <<0, 0>>

get_neighbour_cell(pos, direction) ==
    <<pos[1] + OFFSETS[direction][1], pos[2] + OFFSETS[direction][2]>>

(* ------------------------ connectivity graph --------------------------- *)
\* dict.setdefault(a, set()).add(b) on a dict modelled as a function whose
\* DOMAIN is the set of keys.
SetDefaultAdd(g, a, b) ==
    [k \in (DOMAIN g) \cup {a} |->
        IF k = a THEN (IF a \in DOMAIN g THEN g[a] ELSE {}) \cup {b}
                 ELSE g[k]]

ReplaceConnection(g, cell_a, cell_b) ==
    [k \in (DOMAIN g) \cup {cell_a, cell_b} |->
        IF k = cell_a THEN {cell_b} ELSE IF k = cell_b THEN {cell_a} ELSE g[k]]

OneWayConnection(g, cell_a, cell_b) == SetDefaultAdd(g, cell_a, cell_b)

add_connection(g, cell_a, cell_b) ==
    SetDefaultAdd(SetDefaultAdd(g, cell_a, cell_b), cell_b, cell_a)

\* graph.get(c, set())
GraphGet(g, c) == IF c \in DOMAIN g THEN g[c] ELSE {}

EmptyGraph == [k \in {} |-> {}]

(* ----------------------------- state ----------------------------------- *)
VARIABLES
    position,      \* self.position
    heading,       \* self.heading
    graph,         \* self.graph
    visited,       \* self.visited
    exit_cell,     \* self.exit_cell
    stack,         \* activation records of explore_maze, innermost last
    phase,         \* where solve_maze (or the function under test) stands
    robot,         \* the robot's physical pose in the maze
    opens,         \* passages of the maze known to be open
    walls,         \* passages of the maze known to be walled
    red,           \* cells known to carry the exit marker
    plain,         \* cells known not to carry it
    cap,           \* the number of cells of the maze at hand
    faults,        \* faulted port calls so far
    start,         \* find_shortest_path: start
    goal,          \* find_shortest_path: goal
    predecessors,  \* find_shortest_path: predecessors
    queue,         \* find_shortest_path: queue
    route,         \* the value find_shortest_path returned
    layout,        \* generate_unicode_maze_text(...) without a route
    overlay,       \* generate_unicode_maze_text(...) with the route
    path,          \* traverse_path: path
    idx,           \* traverse_path: i
    tpc,           \* traverse_path: the call the current step is at
    readings       \* the latest value is_path_clear returned, by
                   \* <<self.position, self.heading>> at the call

nav   == <<position, heading>>
map   == <<graph, visited, exit_cell>>
world == <<robot, opens, walls, red, plain>>
bfs   == <<start, goal, predecessors, queue, route>>
text  == <<layout, overlay>>
trav  == <<path, idx, tpc>>
vars  == <<position, heading, graph, visited, exit_cell, stack, phase,
           robot, opens, walls, red, plain, cap, faults,
           start, goal, predecessors, queue, route, layout, overlay,
           path, idx, tpc, readings>>

NoReadings == [k \in {} |-> FALSE]

Box == (0..GridE) \X ((0 - GridS)..GridN)

\* MazeNavigator.__init__ followed by the call of solve_maze, which starts
\* explore_maze(self.position, self.heading).
Init ==
    /\ position = Origin
    /\ heading = 0
    /\ graph = EmptyGraph
    /\ visited = {}
    /\ exit_cell = None
    /\ stack = <<[cell |-> Origin, heading |-> 0, k |-> 1, pc |-> "enter"]>>
    /\ phase = "explore"
    /\ robot = [pos |-> Origin, head |-> 0]
    /\ opens = {}
    /\ walls = {}
    /\ red = {}
    /\ plain = {}
    /\ cap = MaxCells
    /\ faults = 0
    /\ start = None
    /\ goal = None
    /\ predecessors = EmptyGraph
    /\ queue = <<>>
    /\ route = <<>>
    /\ layout = <<>>
    /\ overlay = <<>>
    /\ path = <<>>
    /\ idx = 0
    /\ tpc = "turn"
    /\ readings = NoReadings

(* --------------------------- environment ------------------------------- *)
\* The cells the maze is known to consist of.
MazeCells == {Origin} \cup UNION opens

\* The passage in front of the robot is open (o) or walled (~o); the fact is
\* fixed the first time it is looked at.
WorldAhead(o) ==
    LET t == get_neighbour_cell(robot.pos, robot.head)
        e == {robot.pos, t}
    IN  IF t \notin Box
        THEN o = FALSE /\ UNCHANGED <<opens, walls>>
        ELSE /\ e \in opens => o
             /\ e \in walls => ~o
             /\ (o /\ e \notin opens) =>
                    Cardinality(MazeCells \cup e) <= cap
             /\ opens' = IF o THEN opens \cup {e} ELSE opens
             /\ walls' = IF o THEN walls ELSE walls \cup {e}

\* The cell under the robot carries the exit marker (m) or not.
WorldBelow(m) ==
    /\ robot.pos \in red => m
    /\ robot.pos \in plain => ~m
    /\ (m /\ robot.pos \notin red) => Cardinality(red) < MaxRed
    /\ red' = IF m THEN red \cup {robot.pos} ELSE red
    /\ plain' = IF m THEN plain ELSE plain \cup {robot.pos}

(* ------------------------------ port ----------------------------------- *)
HeadingAssumed(target_heading, ok) ==
    LET turn_amount == (target_heading - heading) % 4
    IN  IF ok
        THEN /\ heading' = target_heading
             /\ robot' = [robot EXCEPT !.head = (@ + turn_amount) % 4]
             /\ faults' = faults
        ELSE /\ turn_amount # 0
             /\ faults < MaxFaults
             /\ faults' = faults + 1
             /\ heading' = target_heading
             /\ robot' = robot

\* set_heading(target_heading); ok = FALSE: drivetrain.turn_for raised.
set_heading(target_heading, ok) ==
    LET turn_amount == (target_heading - heading) % 4
    IN  IF ok
        THEN /\ heading' = target_heading
             /\ robot' = [robot EXCEPT !.head = (@ + turn_amount) % 4]
             /\ faults' = faults
        ELSE /\ turn_amount # 0
             /\ faults < MaxFaults
             /\ faults' = faults + 1
             /\ UNCHANGED <<heading, robot>>

\* move_forward(); ok = FALSE: drivetrain.drive_for raised.  The robot
\* drives one cell when the passage ahead is open and stays put against a
\* wall.
move_forward(ok) ==
    IF ok
    THEN /\ position' = get_neighbour_cell(position, heading)
         /\ \E o \in BOOLEAN :
              /\ WorldAhead(o)
              /\ robot' = IF o
                          THEN [robot EXCEPT !.pos =
                                    get_neighbour_cell(robot.pos, robot.head)]
                          ELSE robot
         /\ faults' = faults
    ELSE /\ faults < MaxFaults
         /\ faults' = faults + 1
         /\ UNCHANGED <<position, robot, opens, walls>>

StartSideOnly ==
    position = Origin /\ heading = 2

\* The two hard-coded blocked sides of is_path_clear.
BlockedSide ==
    \/ (position = Origin /\ heading = 2)
    \/ (exit_cell # None /\ position = exit_cell /\ heading = 0)

\* is_path_clear() returns clear; ok = FALSE: front_distance.get_distance
\* raised.  A hard-coded side returns before the sensor is read.
is_path_clear(clear, ok) ==
    /\ readings' = [q \in (DOMAIN readings) \cup {<<position, heading>>} |->
                        IF q = <<position, heading>> THEN clear
                                                     ELSE readings[q]]
    /\ IF BlockedSide
       THEN /\ ok
            /\ clear = FALSE
            /\ \E o \in BOOLEAN : WorldAhead(o)
            /\ faults' = faults
       ELSE IF ok
            THEN /\ WorldAhead(clear)
                 /\ faults' = faults
            ELSE /\ clear = FALSE
                 /\ faults < MaxFaults
                 /\ faults' = faults + 1
                 /\ UNCHANGED <<opens, walls>>

\* is_at_exit() returns seen; ok = FALSE: down_eye.detect raised.
is_at_exit(seen, ok) ==
    IF ok
    THEN /\ WorldBelow(seen)
         /\ faults' = faults
    ELSE /\ seen = FALSE
         /\ faults < MaxFaults
         /\ faults' = faults + 1
         /\ UNCHANGED <<red, plain>>

(* -------------------------- explore_maze -------------------------------- *)
Top == stack[Len(stack)]

SetTop(f) == [stack EXCEPT ![Len(stack)] = f]

\* new_heading = (current_heading + offset) % 4
NewHeading(f) == (f.heading + Order[f.k]) % 4

\* The end of one pass of the for loop: the next offset, or the return.
NextIter(f) ==
    IF f.k < Len(Order) THEN [f EXCEPT !.k = @ + 1, !.pc = "turn"]
                        ELSE [f EXCEPT !.pc = "ret"]

Exploring(pc) == phase = "explore" /\ stack # <<>> /\ Top.pc = pc

EnterUnmarked(ok) ==
    /\ Exploring("enter")
    /\ visited' = visited
    /\ \E seen \in BOOLEAN :
         /\ is_at_exit(seen, ok)
         /\ exit_cell' = IF seen /\ exit_cell = None THEN Top.cell
                                                     ELSE exit_cell
    /\ stack' = SetTop([Top EXCEPT !.pc = "turn"])
    /\ UNCHANGED <<cap, readings,
                   nav, graph, phase, robot, opens, walls, bfs, text, trav>>

EnterOverwrite(ok) ==
    /\ Exploring("enter")
    /\ visited' = visited \cup {Top.cell}
    /\ \E seen \in BOOLEAN :
         /\ is_at_exit(seen, ok)
         /\ exit_cell' = IF seen THEN Top.cell ELSE exit_cell
    /\ stack' = SetTop([Top EXCEPT !.pc = "turn"])
    /\ UNCHANGED <<cap, readings,
                   nav, graph, phase, robot, opens, walls, bfs, text, trav>>

\* Lines 139-144: mark the cell visited, record the first exit seen.
Enter(ok) ==
    /\ Exploring("enter")
    /\ visited' = visited \cup {Top.cell}
    /\ \E seen \in BOOLEAN :
         /\ is_at_exit(seen, ok)
         /\ exit_cell' = IF seen /\ exit_cell = None THEN Top.cell
                                                     ELSE exit_cell
    /\ stack' = SetTop([Top EXCEPT !.pc = "turn"])
    /\ UNCHANGED <<cap, readings,
                   nav, graph, phase, robot, opens, walls, bfs, text, trav>>

\* Lines 148-149: turn to the next direction.
Turn(ok) ==
    /\ Exploring("turn")
    /\ set_heading(NewHeading(Top), ok)
    /\ stack' = SetTop([Top EXCEPT !.pc = "sense"])
    /\ UNCHANGED <<cap, readings,
                   position, map, phase, opens, walls, red, plain,
                   bfs, text, trav>>

SenseRevisit(ok) ==
    /\ Exploring("sense")
    /\ \E clear \in BOOLEAN :
         /\ is_path_clear(clear, ok)
         /\ LET neighbour == get_neighbour_cell(Top.cell, NewHeading(Top))
            IN  IF clear
                THEN /\ graph' = add_connection(graph, Top.cell, neighbour)
                     /\ stack' = SetTop([Top EXCEPT !.pc = "descend"])
                ELSE /\ graph' = graph
                     /\ stack' = SetTop(NextIter(Top))
    /\ UNCHANGED <<cap, nav, visited, exit_cell, phase, robot, red, plain,
                   bfs, text, trav>>

SenseTreeOnly(ok) ==
    /\ Exploring("sense")
    /\ \E clear \in BOOLEAN :
         /\ is_path_clear(clear, ok)
         /\ LET neighbour == get_neighbour_cell(Top.cell, NewHeading(Top))
            IN  IF clear /\ neighbour \notin visited
                THEN /\ graph' = add_connection(graph, Top.cell, neighbour)
                     /\ stack' = SetTop([Top EXCEPT !.pc = "descend"])
                ELSE /\ graph' = graph
                     /\ stack' = SetTop(NextIter(Top))
    /\ UNCHANGED <<cap, nav, visited, exit_cell, phase, robot, red, plain,
                   bfs, text, trav>>

SenseUnrecorded(ok) ==
    /\ Exploring("sense")
    /\ \E clear \in BOOLEAN :
         /\ is_path_clear(clear, ok)
         /\ LET neighbour == get_neighbour_cell(Top.cell, NewHeading(Top))
            IN  IF clear
                THEN /\ graph' = IF neighbour \in visited
                                 THEN add_connection(graph, Top.cell, neighbour)
                                 ELSE graph
                     /\ stack' = SetTop(IF neighbour \notin visited
                                        THEN [Top EXCEPT !.pc = "descend"]
                                        ELSE NextIter(Top))
                ELSE /\ graph' = graph
                     /\ stack' = SetTop(NextIter(Top))
    /\ UNCHANGED <<cap, nav, visited, exit_cell, phase, robot, red, plain,
                   bfs, text, trav>>

\* Lines 152-157: sense the passage, record it, decide whether to descend.
Sense(ok) ==
    /\ Exploring("sense")
    /\ \E clear \in BOOLEAN :
         /\ is_path_clear(clear, ok)
         /\ LET neighbour == get_neighbour_cell(Top.cell, NewHeading(Top))
            IN  IF clear
                THEN /\ graph' = add_connection(graph, Top.cell, neighbour)
                     /\ stack' = SetTop(IF neighbour \notin visited
                                        THEN [Top EXCEPT !.pc = "descend"]
                                        ELSE NextIter(Top))
                ELSE /\ graph' = graph
                     /\ stack' = SetTop(NextIter(Top))
    /\ UNCHANGED <<cap, nav, visited, exit_cell, phase, robot, red, plain,
                   bfs, text, trav>>

DescendStale(ok) ==
    /\ Exploring("descend")
    /\ move_forward(ok)
    /\ stack' = Append(SetTop([Top EXCEPT !.pc = "back_turn"]),
                       [cell |-> get_neighbour_cell(Top.cell, NewHeading(Top)),
                        heading |-> Top.heading, k |-> 1, pc |-> "enter"])
    /\ UNCHANGED <<cap, readings, heading, map, phase, red, plain, bfs, text,
                   trav>>

\* Lines 158-159: move into the neighbour and call explore_maze there.
Descend(ok) ==
    /\ Exploring("descend")
    /\ move_forward(ok)
    /\ stack' = Append(SetTop([Top EXCEPT !.pc = "back_turn"]),
                       [cell |-> get_neighbour_cell(Top.cell, NewHeading(Top)),
                        heading |-> NewHeading(Top), k |-> 1, pc |-> "enter"])
    /\ UNCHANGED <<cap, readings,
                   heading, map, phase, red, plain, bfs, text, trav>>

BackTurnQuarter(ok) ==
    /\ Exploring("back_turn")
    /\ set_heading((NewHeading(Top) + 1) % 4, ok)
    /\ stack' = SetTop([Top EXCEPT !.pc = "back_move"])
    /\ UNCHANGED <<cap, readings,
                   position, map, phase, opens, walls, red, plain,
                   bfs, text, trav>>

\* Line 161: turn around.
BackTurn(ok) ==
    /\ Exploring("back_turn")
    /\ set_heading((NewHeading(Top) + 2) % 4, ok)
    /\ stack' = SetTop([Top EXCEPT !.pc = "back_move"])
    /\ UNCHANGED <<cap, readings,
                   position, map, phase, opens, walls, red, plain,
                   bfs, text, trav>>

\* Line 162: move back.
BackMove(ok) ==
    /\ Exploring("back_move")
    /\ move_forward(ok)
    /\ stack' = SetTop([Top EXCEPT !.pc = "restore"])
    /\ UNCHANGED <<cap, readings,
                   heading, map, phase, red, plain, bfs, text, trav>>

\* Line 163: turn back to the heading the cell was entered with.
Restore(ok) ==
    /\ Exploring("restore")
    /\ set_heading(Top.heading, ok)
    /\ stack' = SetTop(NextIter(Top))
    /\ UNCHANGED <<cap, readings,
                   position, map, phase, opens, walls, red, plain,
                   bfs, text, trav>>

\* The for loop is exhausted: explore_maze returns to its caller, the
\* outermost call to solve_maze (line 230).
Return ==
    /\ Exploring("ret")
    /\ stack' = SubSeq(stack, 1, Len(stack) - 1)
    /\ phase' = IF Len(stack) = 1 THEN "mapped" ELSE phase
    /\ UNCHANGED <<cap, readings, nav, map, world, faults, bfs, text, trav>>

ExploreEnter    == Enter(TRUE)
ExploreTurn     == Turn(TRUE)
ExploreSense    == Sense(TRUE)
ExploreDescend  == Descend(TRUE)
ExploreBackTurn == BackTurn(TRUE)
ExploreBackMove == BackMove(TRUE)
ExploreRestore  == Restore(TRUE)

FaultEnter    == Enter(FALSE)
FaultTurn     == Turn(FALSE)
FaultSense    == Sense(FALSE)
FaultDescend  == Descend(FALSE)
FaultBackTurn == BackTurn(FALSE)
FaultBackMove == BackMove(FALSE)
FaultRestore  == Restore(FALSE)

Explore ==
    \/ ExploreEnter
    \/ ExploreTurn
    \/ ExploreSense
    \/ ExploreDescend
    \/ ExploreBackTurn
    \/ ExploreBackMove
    \/ ExploreRestore
    \/ Return

ExploreFault ==
    \/ FaultEnter
    \/ FaultTurn
    \/ FaultSense
    \/ FaultDescend
    \/ FaultBackTurn
    \/ FaultBackMove
    \/ FaultRestore

(* ----------------------- find_shortest_path ---------------------------- *)
\* The orders in which a Python set can be iterated.
Orderings(S) ==
    IF S = {} THEN {<<>>}
    ELSE {s \in [1..Cardinality(S) -> S] :
            \A i, j \in 1..Cardinality(S) : i # j => s[i] # s[j]}

\* Lines 175-177: predecessors = {start: None}; queue = deque([start]).
BfsEnter(s, g) ==
    /\ start' = s
    /\ goal' = g
    /\ predecessors' = [c \in {s} |-> None]
    /\ queue' = <<s>>

\* The queue discipline of lines 179 and 187: popleft, append.
Enqueue(rest, new) == rest \o new

EnqueueFront(rest, new) == new \o rest

\* Lines 184-187 for the dequeued cell: the neighbours not yet reached, in
\* the order the set yields them, get the cell as predecessor and are queued.
Discover(current, ord) ==
    /\ predecessors' =
          [c \in (DOMAIN predecessors) \cup {ord[i] : i \in DOMAIN ord} |->
              IF c \in DOMAIN predecessors THEN predecessors[c] ELSE current]
    /\ queue' = Enqueue(Tail(queue), ord)

\* Lines 190-194: follow predecessors.get(node) from the goal until None.
RECURSIVE Chain(_, _)
Chain(pred, node) ==
    IF node = None THEN <<>>
    ELSE <<node>> \o Chain(pred, IF node \in DOMAIN pred THEN pred[node]
                                                          ELSE None)

Reversed(s) == [i \in 1..Len(s) |-> s[Len(s) + 1 - i]]

ReconstructForward(pred, g) == Chain(pred, g)

\* Line 195.
Reconstruct(pred, g) == Reversed(Chain(pred, g))

\* One pass of the while loop that does not break (lines 178-187).
BfsVisit ==
    /\ phase = "bfs"
    /\ Len(queue) > 0
    /\ Head(queue) # goal
    /\ \E ord \in Orderings(GraphGet(graph, Head(queue))
                               \ DOMAIN predecessors) :
          Discover(Head(queue), ord)
    /\ UNCHANGED <<cap, readings,
                   nav, map, stack, phase, world, faults, start, goal,
                   route, text, trav>>

\* The loop ends (empty queue, or the goal is dequeued) and the path is
\* rebuilt and returned (lines 178-181, 190-195).
BfsFinish ==
    /\ phase = "bfs"
    /\ IF Len(queue) = 0 THEN TRUE ELSE Head(queue) = goal
    /\ queue' = IF Len(queue) = 0 THEN queue ELSE Tail(queue)
    /\ route' = Reconstruct(predecessors, goal)
    /\ phase' = "routed"
    /\ UNCHANGED <<cap, readings, nav, map, stack, world, faults, start, goal,
                   predecessors, text, trav>>

(* -------------------- generate_unicode_maze_text ----------------------- *)
Min(S) == CHOOSE m \in S : \A n \in S : m <= n

Max(S) == CHOOSE m \in S : \A n \in S : m >= n

\* Lines 282-291.
min_x(vis) == Min({c[1] : c \in vis})

max_x(vis) == Max({c[1] : c \in vis})

min_y(vis) == Min({c[2] : c \in vis})

max_y(vis) == Max({c[2] : c \in vis})

grid_width(vis) == (max_x(vis) - min_x(vis) + 1) * 2 + 1

grid_height(vis) == (max_y(vis) - min_y(vis) + 1) * 2 + 1

TransposedGrid(vis, maze_cell) ==
    <<(maze_cell[1] - min_x(vis)) * 2 + 1, (max_y(vis) - maze_cell[2]) * 2 + 1>>

\* Lines 297-303: <<row, column>> of a maze cell, counted from 0.
maze_to_grid(vis, maze_cell) ==
    <<(max_y(vis) - maze_cell[2]) * 2 + 1, (maze_cell[1] - min_x(vis)) * 2 + 1>>

\* (r1 + r2) // 2, (c1 + c2) // 2
Midpoint(a, b) == <<(a[1] + b[1]) \div 2, (a[2] + b[2]) \div 2>>

\* Lines 306-308.
CellMarks(vis) == {maze_to_grid(vis, c) : c \in vis}

\* Lines 312-323.
PassageMarks(g, vis) ==
    {Midpoint(maze_to_grid(vis, e[1]), maze_to_grid(vis, e[2])) :
        e \in {d \in vis \X vis : d[1] \in DOMAIN g /\ d[2] \in g[d[1]]}}

\* Lines 327-335; rt = None when no route is passed.
RouteMarks(vis, rt) ==
    IF rt = None THEN {}
    ELSE {maze_to_grid(vis, rt[i]) : i \in 1..Len(rt)}
         \cup {Midpoint(maze_to_grid(vis, rt[i]), maze_to_grid(vis, rt[i + 1])) :
                  i \in 1..(Len(rt) - 1)}

\* Lines 338-341.
EndMarks(vis, st, ex) == {maze_to_grid(vis, st), maze_to_grid(vis, ex)}

\* grid[r][c] = sym for every <<r, c>> of marks; a negative index counts
\* from the end, as a Python list index does.
Paint(grid, h, w, marks, sym) ==
    [p \in DOMAIN grid |->
        IF \E m \in marks : p = <<m[1] % h, m[2] % w>> THEN sym ELSE grid[p]]

\* The marks a list of h rows of w symbols can be indexed with.
Indexable(h, w, marks) ==
    \A m \in marks : m[1] \in (0 - h)..(h - 1) /\ m[2] \in (0 - w)..(w - 1)

EndsFirst(g0, h, w, cells, passages, routed, ends) ==
    Paint(Paint(Paint(Paint(g0, h, w, ends, "START_EXIT"),
                      h, w, cells, "OPEN"), h, w, passages, "OPEN"),
          h, w, routed, "ROUTE")

\* The order in which lines 294-341 write the grid.
Layers(g0, h, w, cells, passages, routed, ends) ==
    Paint(Paint(Paint(Paint(g0, h, w, cells, "OPEN"),
                      h, w, passages, "OPEN"), h, w, routed, "ROUTE"),
          h, w, ends, "START_EXIT")

\* The text returned, as the sequence of its lines, each a sequence of
\* symbols; <<>> is the empty string (no visited cell, line 276, or an
\* exception, line 347).
generate_unicode_maze_text(g, vis, st, ex, rt) ==
    IF vis = {} \/ ex = None \/ st = None THEN <<>>
    ELSE LET h == grid_height(vis)
             w == grid_width(vis)
             all == CellMarks(vis) \cup PassageMarks(g, vis)
                      \cup RouteMarks(vis, rt) \cup EndMarks(vis, st, ex)
             g0 == [p \in (0..(h - 1)) \X (0..(w - 1)) |-> "WALL"]
             grid == Layers(g0, h, w, CellMarks(vis), PassageMarks(g, vis),
                            RouteMarks(vis, rt), EndMarks(vis, st, ex))
         IN  IF ~Indexable(h, w, all) THEN <<>>
             ELSE [r \in 1..h |-> [c \in 1..w |-> grid[<<r - 1, c - 1>>]]]

(* ----------------------------- solve_maze ------------------------------ *)
SolveRegardless ==
    /\ phase = "mapped"
    /\ exit_cell = None
    /\ layout' = generate_unicode_maze_text(graph, visited, Origin,
                                            exit_cell, None)
    /\ BfsEnter(Origin, exit_cell)
    /\ phase' = "bfs"
    /\ UNCHANGED <<cap, readings, nav, map, stack, world, faults, route,
                   overlay, trav>>

\* Lines 230-232: exploration found no exit.
Abandon ==
    /\ phase = "mapped"
    /\ exit_cell = None
    /\ phase' = "abandoned"
    /\ UNCHANGED <<cap, readings,
                   nav, map, stack, world, faults, bfs, text, trav>>

\* Lines 234-244: print the layout and call find_shortest_path.
MapLayout ==
    /\ phase = "mapped"
    /\ exit_cell # None
    /\ layout' = generate_unicode_maze_text(graph, visited, Origin,
                                            exit_cell, None)
    /\ BfsEnter(Origin, exit_cell)
    /\ phase' = "bfs"
    /\ UNCHANGED <<cap, readings,
                   nav, map, stack, world, faults, route, overlay, trav>>

\* Lines 245-254: print the route overlay and call traverse_path(route).
RouteOverlay ==
    /\ phase = "routed"
    /\ overlay' = generate_unicode_maze_text(graph, visited, Origin,
                                             exit_cell, route)
    /\ path' = route
    /\ idx' = 1
    /\ tpc' = "turn"
    /\ phase' = "to_exit"
    /\ UNCHANGED <<cap, readings, nav, map, stack, world, faults, bfs, layout>>

(* --------------------------- traverse_path ----------------------------- *)
\* delta in direction_map
Cardinal(d) == \E h \in 0..3 : OFFSETS[h] = d

MirroredMap(d) == CHOOSE h \in 0..3 : OFFSETS[h] = <<d[1], 0 - d[2]>>

\* direction_map[delta]
direction_map(d) == CHOOSE h \in 0..3 : OFFSETS[h] = d

\* Lines 209-210 for the pair the loop is at.
delta == <<path[idx + 1][1] - path[idx][1], path[idx + 1][2] - path[idx][2]>>

Traversing(pc) ==
    /\ phase \in {"to_exit", "to_base", "replay"}
    /\ tpc = pc
    /\ idx < Len(path)

TraverseBreak ==
    /\ Traversing("turn")
    /\ ~Cardinal(delta)
    /\ idx' = Len(path)
    /\ UNCHANGED <<cap, readings, nav, map, stack, phase, world, faults, bfs,
                   text, path, tpc>>

\* Lines 212-213: continue.
TraverseSkip ==
    /\ Traversing("turn")
    /\ ~Cardinal(delta)
    /\ idx' = idx + 1
    /\ UNCHANGED <<cap, readings,
                   nav, map, stack, phase, world, faults, bfs, text,
                   path, tpc>>

\* Line 214.
TurnTo(ok) ==
    /\ Traversing("turn")
    /\ Cardinal(delta)
    /\ set_heading(direction_map(delta), ok)
    /\ tpc' = "move"
    /\ UNCHANGED <<cap, readings,
                   position, map, stack, phase, opens, walls, red, plain,
                   bfs, text, path, idx>>

\* Line 215 and the end of the pass.
Advance(ok) ==
    /\ Traversing("move")
    /\ move_forward(ok)
    /\ tpc' = "turn"
    /\ idx' = idx + 1
    /\ UNCHANGED <<cap, readings,
                   heading, map, stack, phase, red, plain, bfs, text, path>>

TraverseEndForward ==
    /\ phase \in {"to_exit", "to_base", "replay"}
    /\ tpc = "turn"
    /\ idx >= Len(path)
    /\ IF phase = "to_exit"
       THEN /\ phase' = "to_base"
            /\ path' = route
            /\ idx' = 1
       ELSE /\ phase' = IF phase = "to_base" THEN "done" ELSE "replayed"
            /\ UNCHANGED <<path, idx>>
    /\ UNCHANGED <<cap, readings, nav, map, stack, world, faults, bfs, text,
                   tpc>>

\* traverse_path returns: to lines 255-256 (the way back), or to line 257.
TraverseEnd ==
    /\ phase \in {"to_exit", "to_base", "replay"}
    /\ tpc = "turn"
    /\ idx >= Len(path)
    /\ IF phase = "to_exit"
       THEN /\ phase' = "to_base"
            /\ path' = Reversed(route)
            /\ idx' = 1
       ELSE /\ phase' = IF phase = "to_base" THEN "done" ELSE "replayed"
            /\ UNCHANGED <<path, idx>>
    /\ UNCHANGED <<cap, readings,
                   nav, map, stack, world, faults, bfs, text, tpc>>

TraverseTurn == TurnTo(TRUE)
TraverseMove == Advance(TRUE)
FaultTurnTo  == TurnTo(FALSE)
FaultAdvance == Advance(FALSE)

Next ==
    \/ Explore
    \/ Abandon
    \/ MapLayout
    \/ BfsVisit
    \/ BfsFinish
    \/ RouteOverlay
    \/ TraverseTurn
    \/ TraverseMove
    \/ TraverseEnd

Spec == Init /\ [][Next]_vars

NextF == Next \/ ExploreFault \/ FaultTurnTo \/ FaultAdvance

\* The same start, in a maze of at most FaultCells cells.
InitF ==
    /\ position = Origin
    /\ heading = 0
    /\ graph = EmptyGraph
    /\ visited = {}
    /\ exit_cell = None
    /\ stack = <<[cell |-> Origin, heading |-> 0, k |-> 1, pc |-> "enter"]>>
    /\ phase = "explore"
    /\ robot = [pos |-> Origin, head |-> 0]
    /\ opens = {}
    /\ walls = {}
    /\ red = {}
    /\ plain = {}
    /\ cap = FaultCells
    /\ faults = 0
    /\ start = None
    /\ goal = None
    /\ predecessors = EmptyGraph
    /\ queue = <<>>
    /\ route = <<>>
    /\ layout = <<>>
    /\ overlay = <<>>
    /\ path = <<>>
    /\ idx = 0
    /\ tpc = "turn"
    /\ readings = NoReadings

SpecF == InitF /\ [][NextF]_vars

\* The exploration of solve_maze, up to the return of explore_maze.  It is one
\* sequential thread and every port call returns: it takes its next step
\* whenever it has one.
SpecFair == Init /\ [][Explore]_vars /\ WF_vars(Explore)

(* ---------------- find_shortest_path on its own ------------------------ *)
\* The cells (0,0), (1,0), (0,1), (1,1), (0,2), ...
BfsCells == {<<i % 2, i \div 2>> : i \in 0..(BfsN - 1)}

\* The graph add_connection builds from a set of undirected edges.
GraphOf(E) == [v \in UNION E |-> {u \in UNION E : {u, v} \in E}]

\* find_shortest_path(start, goal) is about to be called on a symmetric
\* graph over BfsCells; start and goal need not be vertices of it.
InitBFS ==
    /\ \E E \in SUBSET {{a, b} : a, b \in BfsCells} :
          /\ \A e \in E : Cardinality(e) = 2
          /\ graph = GraphOf(E)
    /\ start \in BfsCells
    /\ goal \in BfsCells
    /\ phase = "call"
    /\ position = Origin
    /\ heading = 0
    /\ visited = {}
    /\ exit_cell = None
    /\ stack = <<>>
    /\ robot = [pos |-> Origin, head |-> 0]
    /\ opens = {}
    /\ walls = {}
    /\ red = {}
    /\ plain = {}
    /\ cap = 0
    /\ faults = 0
    /\ predecessors = EmptyGraph
    /\ queue = <<>>
    /\ route = <<>>
    /\ layout = <<>>
    /\ overlay = <<>>
    /\ path = <<>>
    /\ idx = 0
    /\ tpc = "turn"
    /\ readings = NoReadings

BfsCall ==
    /\ phase = "call"
    /\ BfsEnter(start, goal)
    /\ phase' = "bfs"
    /\ UNCHANGED <<cap, readings,
                   nav, map, stack, world, faults, route, text, trav>>

NextBFS == BfsCall \/ BfsVisit \/ BfsFinish

SpecBFS == InitBFS /\ [][NextBFS]_vars

(* ------------------- explore_maze on its own --------------------------- *)
\* explore_maze(self.position, h) is called from the start cell with any
\* heading h the robot may have.
InitE ==
    /\ position = Origin
    /\ heading \in 0..3
    /\ graph = EmptyGraph
    /\ visited = {}
    /\ exit_cell = None
    /\ stack = <<[cell |-> Origin, heading |-> heading, k |-> 1,
                  pc |-> "enter"]>>
    /\ phase = "explore"
    /\ robot = [pos |-> Origin, head |-> heading]
    /\ opens = {}
    /\ walls = {}
    /\ red = {}
    /\ plain = {}
    /\ cap = MaxCells
    /\ faults = 0
    /\ start = None
    /\ goal = None
    /\ predecessors = EmptyGraph
    /\ queue = <<>>
    /\ route = <<>>
    /\ layout = <<>>
    /\ overlay = <<>>
    /\ path = <<>>
    /\ idx = 0
    /\ tpc = "turn"
    /\ readings = NoReadings

NextE == Explore

SpecE == InitE /\ [][NextE]_vars

(* -------------------- traverse_path on its own ------------------------- *)
\* traverse_path(path) is called with any list of at most PathLen cells of
\* BfsCells, consecutive cells adjacent or not, the robot standing in the
\* start cell of a maze nothing is known of yet.
InitT ==
    /\ path \in {<<>>} \cup UNION {[1..n -> BfsCells] : n \in 1..PathLen}
    /\ idx = 1
    /\ tpc = "turn"
    /\ phase = "replay"
    /\ position = Origin
    /\ heading = 0
    /\ graph = EmptyGraph
    /\ visited = {}
    /\ exit_cell = None
    /\ stack = <<>>
    /\ robot = [pos |-> Origin, head |-> 0]
    /\ opens = {}
    /\ walls = {}
    /\ red = {}
    /\ plain = {}
    /\ cap = MaxCells
    /\ faults = 0
    /\ start = None
    /\ goal = None
    /\ predecessors = EmptyGraph
    /\ queue = <<>>
    /\ route = <<>>
    /\ layout = <<>>
    /\ overlay = <<>>
    /\ readings = NoReadings

NextT == TraverseSkip \/ TraverseTurn \/ TraverseMove \/ TraverseEnd

SpecT == InitT /\ [][NextT]_vars

(* ------------- generate_unicode_maze_text on its own ------------------- *)
\* The cells (0,-1), (1,-1), (0,0), (1,0), (0,1), ...
RenderCells == {<<i % 2, (i \div 2) - 1>> : i \in 0..(RenderN - 1)}

\* The pairs of cardinally adjacent cells of a set of cells.
AdjacentPairs(cells) ==
    {e \in SUBSET cells :
        \E a \in e : \E h \in 0..3 : e = {a, get_neighbour_cell(a, h)}}

\* generate_unicode_maze_text(graph, visited, start, exit_cell, route) is
\* about to be called: visited is any non-empty set of RenderCells, graph any
\* set of passages between adjacent visited cells, start and exit_cell any
\* visited cells, route any list of at most PathLen visited cells, adjacent
\* or not.  (start holds the parameter start.)
InitR ==
    /\ visited \in (SUBSET RenderCells) \ {{}}
    /\ graph \in {GraphOf(E) : E \in SUBSET AdjacentPairs(visited)}
    /\ start \in visited
    /\ exit_cell \in visited
    /\ route \in {<<>>} \cup UNION {[1..n -> visited] : n \in 1..PathLen}
    /\ phase = "render"
    /\ position = Origin
    /\ heading = 0
    /\ stack = <<>>
    /\ robot = [pos |-> Origin, head |-> 0]
    /\ opens = {}
    /\ walls = {}
    /\ red = {}
    /\ plain = {}
    /\ cap = 0
    /\ faults = 0
    /\ goal = None
    /\ predecessors = EmptyGraph
    /\ queue = <<>>
    /\ layout = <<>>
    /\ overlay = <<>>
    /\ path = <<>>
    /\ idx = 0
    /\ tpc = "turn"
    /\ readings = NoReadings

\* The call and its return.
Render ==
    /\ phase = "render"
    /\ overlay' = generate_unicode_maze_text(graph, visited, start,
                                             exit_cell, route)
    /\ phase' = "rendered"
    /\ UNCHANGED <<cap, readings, nav, map, stack, world, faults, bfs,
                   layout, trav>>

NextR == Render

SpecR == InitR /\ [][NextR]_vars

(* ------------------------- graph distances ----------------------------- *)
\* The cells at most k edges away from s in the graph g.
RECURSIVE Within(_, _, _)
Within(g, s, k) ==
    IF k = 0 THEN {s}
    ELSE LET W == Within(g, s, k - 1)
         IN  W \cup UNION {GraphGet(g, c) : c \in W}

Reachable(g, s, t) == t \in Within(g, s, Cardinality(DOMAIN g))

\* The least number of edges of a path from s to t (t reachable from s).
Distance(g, s, t) ==
    CHOOSE k \in 0..Cardinality(DOMAIN g) :
        /\ t \in Within(g, s, k)
        /\ k > 0 => t \notin Within(g, s, k - 1)

\* s is a path of the graph g: every consecutive pair is an edge.
IsPath(g, s) == \A i \in 1..(Len(s) - 1) : s[i + 1] \in GraphGet(g, s[i])

Vertices(g) == (DOMAIN g) \cup UNION {g[c] : c \in DOMAIN g}

(* ------------------------------ claims --------------------------------- *)
\* C1 as stated: whenever a call explore_maze(start, heading) is about to
\* return with a fault-free port, self.position = start and
\* self.heading = heading.
C1_Original ==
    Exploring("ret") => position = Top.cell /\ heading = Top.heading

\* C1 as amended: whenever a call explore_maze(start, heading) is about to
\* return with a fault-free port, self.position = start, and self.heading is
\* heading or its opposite (heading + 2) % 4; it is the opposite for every
\* recursive call.
C1_Backtracked ==
    Exploring("ret") =>
        /\ position = Top.cell
        /\ heading \in {Top.heading, (Top.heading + 2) % 4}
        /\ Len(stack) > 1 => heading = (Top.heading + 2) % 4

\* A recursive call returns with the robot back in the cell it was called
\* for, facing the way it came from.
C1_Witness ==
    /\ Exploring("ret")
    /\ Len(stack) = 3
    /\ position = Top.cell
    /\ heading # Top.heading

\* C2: when find_shortest_path(start, goal) returns for a goal reachable from
\* start in a symmetric graph, the sequence returned starts with start, ends
\* with goal, joins consecutive cells by edges of the graph, and has the
\* least number of edges of all paths from start to goal.
C2_ShortestPath ==
    (phase = "routed" /\ Reachable(graph, start, goal)) =>
        /\ Len(route) >= 1
        /\ route[1] = start
        /\ route[Len(route)] = goal
        /\ IsPath(graph, route)
        /\ Len(route) - 1 = Distance(graph, start, goal)

\* A search returned a route of three edges.
C2_Witness ==
    /\ phase = "routed"
    /\ Reachable(graph, start, goal)
    /\ Len(route) = 4

\* C3 as stated: find_shortest_path returns the empty sequence when goal is
\* not reachable from start, and the sequence [start] when start = goal.
C3_UnreachableEmpty ==
    phase = "routed" =>
        /\ ~Reachable(graph, start, goal) => Len(route) = 0
        /\ start = goal => route = <<start>>

\* C4: in every state of a run, b is in graph[a] exactly if a is in graph[b].
C4_Symmetric ==
    \A a \in Vertices(graph) : \A b \in Vertices(graph) :
        (a \in DOMAIN graph /\ b \in graph[a])
            <=> (b \in DOMAIN graph /\ a \in graph[b])

\* add_connection has recorded the four passages of a ring of four cells.
C4_Witness ==
    /\ Cardinality(DOMAIN graph) = 4
    /\ \A a \in DOMAIN graph : Cardinality(graph[a]) = 2

\* C5: the exit cell is None as long as no is_at_exit() has read true, it is
\* set to the cell being entered by the first one that does, and from then on
\* it never changes, also when is_at_exit() reads true at another cell.
C5_SetOnce ==
    [][/\ exit_cell # None => exit_cell' = exit_cell
       /\ red' = {} => exit_cell' = None
       /\ (red = {} /\ red' # {}) => (exit_cell' = Top.cell /\ red' = {exit_cell'})
      ]_vars

\* is_at_exit() has read true at two cells and the exit cell is one of them.
C5_Witness ==
    /\ Cardinality(red) = 2
    /\ exit_cell \in red

\* C6: with a fault-free port exploration terminates (explore_maze returns to
\* solve_maze), every call of explore_maze is for a cell that is unvisited at
\* that moment, and no two calls are for the same cell.
C6_Terminates ==
    /\ <>(phase # "explore")
    /\ [](Exploring("enter") => Top.cell \notin visited)
    /\ [](\A i, j \in 1..Len(stack) : i # j => stack[i].cell # stack[j].cell)

\* Exploration has returned after visiting four cells.
C6_Witness ==
    /\ phase = "mapped"
    /\ Cardinality(visited) = 4

\* C7 as stated: when the backtracking move of a descent from cell c has been
\* made, self.position = c, whichever port calls faulted in between.
C7_PairedReturn ==
    Exploring("restore") => position = Top.cell

\* The neighbour explore_maze is about to enter: its passage is recorded
\* (line 154) and visited.add (line 139) of the recursive call is yet to run.
Pending ==
    IF phase = "explore" /\ stack # <<>>
    THEN IF Top.pc = "descend"
         THEN {get_neighbour_cell(Top.cell, NewHeading(Top))}
         ELSE IF Top.pc = "enter" THEN {Top.cell} ELSE {}
    ELSE {}

\* C8 as stated (its second half): in every state every cell that is a key or
\* a neighbour in the graph is in visited.
C8_Original ==
    Vertices(graph) \subseteq visited

\* C8 as amended: visited only grows, and every cell of the graph is in visited
\* or is the one neighbour explore_maze is about to enter; in particular every
\* cell of the graph is visited once explore_maze has returned.
C8_VisitedCovers ==
    /\ [][visited \subseteq visited']_vars
    /\ [](Vertices(graph) \subseteq (visited \cup Pending))
    /\ [](phase # "explore" => Vertices(graph) \subseteq visited)

\* Exploration has returned with four cells visited, all of them in the graph.
C8_Witness ==
    /\ phase = "mapped"
    /\ Cardinality(visited) = 4
    /\ Vertices(graph) = visited

\* The maze as far as the sensors have determined it.
Maze == GraphOf(opens)

SouthOfStartOpen == {Origin, get_neighbour_cell(Origin, 2)} \in opens

NorthOfExitOpen == {exit_cell, get_neighbour_cell(exit_cell, 0)} \in opens

RowsOf3 == <<"WALL", "WALL", "WALL">>

\* The maze of C10 has been explored and its layout printed.
C10_Case ==
    /\ phase \notin {"explore", "mapped", "abandoned"}
    /\ visited = {<<0, 0>>, <<0, 1>>}
    /\ graph = GraphOf({{<<0, 0>>, <<0, 1>>}})
    /\ exit_cell = <<0, 1>>

\* C10 as stated: the layout has 3 rows of 5 symbols.
C10_Original ==
    C10_Case => (Len(layout) = 3 /\ \A r \in 1..Len(layout) : Len(layout[r]) = 5)

\* C10 as amended: the layout has 5 rows of 3 symbols; its border is WALL, the
\* two cells (rows 2 and 4, column 2) are START_EXIT and the midpoint between
\* them (row 3, column 2) is OPEN.
C10_Layout ==
    C10_Case =>
        layout = <<RowsOf3,
                   <<"WALL", "START_EXIT", "WALL">>,
                   <<"WALL", "OPEN", "WALL">>,
                   <<"WALL", "START_EXIT", "WALL">>,
                   RowsOf3>>

\* The layout of that maze has been printed.
C10_Witness ==
    /\ C10_Case
    /\ Len(layout) = 5

\* The symbol the text t shows at the grid position m = <<row, column>>.
SymbolAt(t, m) == t[m[1] + 1][m[2] + 1]

\* C11: in the text generated with a route, the position of every route cell
\* and of every midpoint between consecutive route cells shows ROUTE, except
\* the positions of the start cell and of the exit cell, which show
\* START_EXIT (so neither ROUTE nor OPEN is left there).
C11_RouteOverlay ==
    (phase = "rendered" /\ route # <<>>) =>
        /\ Len(overlay) = grid_height(visited)
        /\ \A m \in RouteMarks(visited, route)
                      \ EndMarks(visited, start, exit_cell) :
              SymbolAt(overlay, m) = "ROUTE"
        /\ \A m \in EndMarks(visited, start, exit_cell) :
              SymbolAt(overlay, m) = "START_EXIT"
        /\ \A r \in 1..Len(overlay) : \A c \in 1..Len(overlay[r]) :
              overlay[r][c] = "ROUTE" =>
                  <<r - 1, c - 1>> \in RouteMarks(visited, route)

\* The text was generated for a route of three cells that passes through the
\* start cell and ends in the exit cell: it shows ROUTE at the first cell and
\* at both midpoints.
C11_Witness ==
    /\ phase = "rendered"
    /\ Len(route) = 3
    /\ route[2] = start
    /\ route[3] = exit_cell
    /\ Cardinality(RouteMarks(visited, route)
                     \ EndMarks(visited, start, exit_cell)) = 3
    /\ \E c \in 1..Len(overlay[1]) : SymbolAt(overlay, <<1, c - 1>>) = "ROUTE"

\* C12: when explore_maze has returned and no exit cell is recorded,
\* solve_maze returns at once: its only step leaves position, heading, graph,
\* visited set, exit cell and the robot as exploration left them, no search
\* is started, no text is generated, no path is traversed, and nothing
\* happens afterwards.
C12_Abandons ==
    /\ [][(phase = "mapped" /\ exit_cell = None) =>
              /\ phase' = "abandoned"
              /\ UNCHANGED <<nav, map, world, bfs, text, trav>>]_vars
    /\ [][phase # "abandoned"]_vars
    /\ [](phase = "abandoned" =>
              /\ exit_cell = None
              /\ <<queue, route, layout, overlay, path>>
                    = <<<<>>, <<>>, <<>>, <<>>, <<>>>>
              /\ DOMAIN predecessors = {})

\* A solve was abandoned after an exploration of three cells, none of them
\* marked.
C12_Witness ==
    /\ phase = "abandoned"
    /\ Cardinality(visited) = 3
    /\ red = {}

\* The statement explore_maze goes on with after the port call of the
\* statement pc of a frame returned its safe default.
AfterFault(f) ==
    CASE f.pc = "enter"     -> "turn"
      [] f.pc = "turn"      -> "sense"
      [] f.pc = "sense"     -> IF f.k < Len(Order) THEN "turn" ELSE "ret"
      [] f.pc = "descend"   -> "back_turn"
      [] f.pc = "back_turn" -> "back_move"
      [] f.pc = "back_move" -> "restore"
      [] f.pc = "restore"   -> IF f.k < Len(Order) THEN "turn" ELSE "ret"

\* C13: a port call that faults changes neither self.heading nor
\* self.position nor the robot's pose, a faulted is_path_clear records no
\* passage and leads to no descent, a faulted is_at_exit records no exit, and
\* the caller goes on with its next statement: explore_maze with the
\* statement after the call (a faulted descent still makes the recursive
\* call), traverse_path with the advance after a faulted turn and with the
\* next pair after a faulted advance; solve_maze stays in the same phase.
C13_SafeDefault ==
    [][faults' # faults =>
          /\ nav' = nav
          /\ robot' = robot
          /\ graph' = graph
          /\ exit_cell' = exit_cell
          /\ phase' = phase
          /\ IF phase = "explore"
             THEN /\ Len(stack') >= Len(stack)
                  /\ stack'[Len(stack)].pc = AfterFault(Top)
                  /\ Top.pc = "enter" => visited' = visited \cup {Top.cell}
                  /\ Top.pc = "descend" =>
                        /\ Len(stack') = Len(stack) + 1
                        /\ stack'[Len(stack')].pc = "enter"
                  /\ Top.pc # "descend" => Len(stack') = Len(stack)
             ELSE /\ path' = path
                  /\ \/ (tpc = "turn" /\ tpc' = "move" /\ idx' = idx)
                     \/ (tpc = "move" /\ tpc' = "turn" /\ idx' = idx + 1)
      ]_vars

\* A solve in which one port call faulted has run to its end.
C13_Witness ==
    /\ faults = 1
    /\ phase = "done"

\* The four cardinal unit offsets and the heading that matches each.
UnitSteps == {<<0, 1>>, <<1, 0>>, <<0, -1>>, <<-1, 0>>}

Matching(d) ==
    CASE d = <<0, 1>> -> 0 [] d = <<1, 0>> -> 1
      [] d = <<0, -1>> -> 2 [] d = <<-1, 0>> -> 3

\* The cell reached from s by one step for each of the first n pairs of p
\* whose delta is a cardinal unit offset.
RECURSIVE Walked(_, _, _)
Walked(p, s, n) ==
    IF n <= 0 THEN s
    ELSE LET w == Walked(p, s, n - 1)
             d == <<p[n + 1][1] - p[n][1], p[n + 1][2] - p[n][2]>>
         IN  IF d \in UnitSteps THEN <<w[1] + d[1], w[2] + d[2]>> ELSE w

\* C14: traverse_path passes over a pair whose delta is not a cardinal unit
\* offset without a turn or an advance (position, heading and the robot's
\* pose are unchanged) and goes on with the next pair; for a pair with a
\* cardinal unit delta it turns to the matching heading and then advances
\* once; so before each pair and at the return self.position is the start
\* position moved by one step for each cardinal pair passed, and the
\* function returns only when every pair has been passed.
C14_SkipsMalformed ==
    /\ [][(phase = "replay" /\ idx < Len(path)) =>
             IF delta \notin UnitSteps
             THEN /\ nav' = nav
                  /\ robot' = robot
                  /\ idx' = idx + 1
                  /\ <<phase, tpc>>' = <<phase, tpc>>
             ELSE IF tpc = "turn"
                  THEN /\ heading' = Matching(delta)
                       /\ position' = position
                       /\ <<phase, idx, tpc>>' = <<phase, idx, "move">>
                  ELSE /\ position' = <<position[1] + delta[1],
                                        position[2] + delta[2]>>
                       /\ heading' = heading
                       /\ <<phase, idx, tpc>>' = <<phase, idx + 1, "turn">>
         ]_vars
    /\ []((phase = "replay" /\ tpc = "turn") =>
             position = Walked(path, Origin, idx - 1))
    /\ [](phase = "replayed" =>
             /\ idx >= Len(path)
             /\ position = Walked(path, Origin, Len(path) - 1))

\* traverse_path has returned for a path of three cells whose first pair is
\* no cardinal step and whose second pair is one: the robot made one step.
C14_Witness ==
    /\ phase = "replayed"
    /\ Len(path) = 3
    /\ <<path[2][1] - path[1][1], path[2][2] - path[1][2]>> \notin UnitSteps
    /\ <<path[3][1] - path[2][1], path[3][2] - path[2][2]>> \in UnitSteps
    /\ position \in UnitSteps

\* C15: a passage once in the graph is in it in every later state; once
\* explore_maze has returned, the graph, the visited set and the exit cell
\* never change, and self.position and self.heading change only in
\* traverse_path.
C15_ReadOnlyMap ==
    /\ [][\A a \in DOMAIN graph :
              a \in DOMAIN graph' /\ graph[a] \subseteq graph'[a]]_vars
    /\ [][phase # "explore" => map' = map]_vars
    /\ [][(phase # "explore" /\ nav' # nav) =>
              (phase \in {"to_exit", "to_base"} /\ phase' = phase)]_vars

\* The way back is being traversed over a map of four cells and four
\* passages, the robot away from the start cell.
C15_Witness ==
    /\ phase = "to_base"
    /\ position # Origin
    /\ Cardinality(visited) = 4
    /\ \A a \in DOMAIN graph : Cardinality(graph[a]) = 2

\* The next call is move_forward(): a descent or a backtracking move of
\* explore_maze, or a step of traverse_path.
Descending == phase = "explore" /\ stack # <<>> /\ Top.pc = "descend"

Backtracking == phase = "explore" /\ stack # <<>> /\ Top.pc = "back_move"

Following == phase \in {"to_exit", "to_base"} /\ tpc = "move" /\ idx < Len(path)

Advancing == Descending \/ Backtracking \/ Following

\* The cell move_forward() takes self.position to.
Ahead == get_neighbour_cell(position, heading)

SouthOutOfStart == position = Origin /\ heading = 2

NorthOutOfExit == exit_cell # None /\ position = exit_cell /\ heading = 0

\* C16 as stated: the agent never advances south out of the cell (0,0) nor
\* north out of the recorded exit cell.
C16_Original ==
    ~(Advancing /\ (SouthOutOfStart \/ NorthOutOfExit))

\* C16 as amended: explore_maze never descends south out of (0,0) or north
\* out of the recorded exit cell; when the agent advances across one of these
\* sides it is backtracking or following the route, the passage is in the
\* graph and the cell beyond it is visited.
C16_StaysMapped ==
    (Advancing /\ (SouthOutOfStart \/ NorthOutOfExit)) =>
        /\ ~Descending
        /\ Ahead \in visited
        /\ Ahead \in GraphGet(graph, position)
        /\ robot.pos = position

\* The exit cell was entered southwards and explored; the agent is about to
\* move back north out of it.
C16_Witness ==
    /\ Backtracking
    /\ NorthOutOfExit
    /\ Ahead = Top.cell

\* C17: with a fault-free port, at every entry of
\* explore_maze(current_cell, current_heading) self.position = current_cell
\* and self.heading = current_heading, and at every call of is_path_clear in
\* its loop self.position = current_cell (and self.heading = new_heading), so
\* that the special cases of is_path_clear are decided for the cell being
\* explored.
C17_InStep ==
    /\ Exploring("enter") =>
          (position = Top.cell /\ heading = Top.heading)
    /\ Exploring("sense") =>
          (position = Top.cell /\ heading = NewHeading(Top))

\* is_path_clear is called for the last direction of a cell two descents away
\* from the start cell, after a descent from that cell and the way back.
C17_Witness ==
    /\ Exploring("sense")
    /\ Len(stack) = 3
    /\ Top.k = 4
    /\ Cardinality(visited) = 4
    /\ position = Top.cell

\* The latest is_path_clear at self.position with self.heading returned false.
ReadBlocked ==
    /\ <<position, heading>> \in DOMAIN readings
    /\ ~readings[<<position, heading>>]

\* C18 as stated: every advance is across a passage that is in the graph, and
\* never in a direction whose latest is_path_clear reading at that cell was
\* false.
C18_Original ==
    Advancing => (Ahead \in GraphGet(graph, position) /\ ~ReadBlocked)

\* C18 as amended: every advance is across a passage that is in the graph and
\* open in the maze, from the cell the robot stands in; the latest
\* is_path_clear reading at that cell in that direction was false only for
\* the two hard-coded sides, south of (0,0) and north of the exit cell.
C18_SensedOpen ==
    Advancing =>
        /\ Ahead \in GraphGet(graph, position)
        /\ {position, Ahead} \in opens
        /\ robot = [pos |-> position, head |-> heading]
        /\ ReadBlocked => (SouthOutOfStart \/ NorthOutOfExit)

\* The agent is about to follow the route south out of (0,0), where
\* is_path_clear returned false; the passage was recorded from its other end.
C18_Witness ==
    /\ Following
    /\ SouthOutOfStart
    /\ ReadBlocked
    /\ Ahead \in GraphGet(graph, position)

\* find_shortest_path((0, 0), exit_cell) of solve_maze has returned.
Routed == phase \in {"routed", "to_exit", "to_base", "done"}

\* C19: once explore_maze has returned, every visited cell is connected to
\* the start cell by a path of the graph; so the search solve_maze makes is
\* for a reachable goal, and the route it returns and traverses is non-empty,
\* starts at (0,0), ends at the exit cell and is a path of the graph.
C19_Connected ==
    /\ phase # "explore" =>
          \A c \in visited : Reachable(graph, Origin, c)
    /\ (phase # "explore" /\ exit_cell # None) =>
          (exit_cell \in visited /\ Reachable(graph, Origin, exit_cell))
    /\ Routed =>
          /\ Len(route) >= 1
          /\ route[1] = Origin
          /\ route[Len(route)] = exit_cell
          /\ IsPath(graph, route)
    /\ phase \in {"to_exit", "to_base"} =>
          path \in {route, Reversed(route)}

\* The search has returned a route of four cells to an exit cell three
\* passages away from the start cell.
C19_Witness ==
    /\ Routed
    /\ Cardinality(visited) = 4
    /\ Len(route) = 4
    /\ route[4] = exit_cell

\* C20: with a fault-free port and an exit detected, traverse_path(route) is
\* called with the agent in the start cell, when it returns self.position is
\* the exit cell, and when traverse_path(reversed(route)) returns
\* self.position is (0,0); the robot itself stands in the cell self.position
\* names each time.
C20_ThereAndBack ==
    /\ (phase = "to_exit" /\ idx = 1 /\ tpc = "turn") =>
          (position = Origin /\ robot.pos = Origin)
    /\ (phase = "to_base" /\ idx = 1 /\ tpc = "turn") =>
          (position = exit_cell /\ robot.pos = exit_cell)
    /\ phase = "done" =>
          (position = Origin /\ robot.pos = Origin)

\* A solve has ended after a route of three passages there and back.
C20_Witness ==
    /\ phase = "done"
    /\ Len(route) = 4
    /\ exit_cell # Origin
    /\ position = Origin

====
